---- MODULE Spec2Model ----
(***************************************************************************)
(* A model of zipstream: ZipBase (base.py), ZipStream (zipstream.py) and   *)
(* AioZipStream (aiozipstream.py) with the record layouts of consts.py.    *)
(*                                                                         *)
(* Every yielded chunk is carried with its real bytes.  A Python int that  *)
(* is written into a record is carried as its little-endian byte list, so  *)
(* that 0xffffffff and sizes above 2^31-1 keep their width.                *)
(***************************************************************************)
EXTENDS Integers, Sequences, FiniteSets, TLC

\* ---------------------------------------------------------------- bounds
MaxMembers == 2
MaxBuilds == 2
\* members per list where two generators of one object are interleaved
MaxPairMembers == 1
\* the chunksize argument of the constructor (1024 by default), scaled down
chunksize == 2
\* how much input the compressor buffers before it hands out a block
DeflateBufSize == 2

\* ---------------------------------------------------------------- consts.py
ZIP32_VERSION == 20
ZIP64_VERSION == 45
\* (1 << 31) - 1, little-endian
ZIP32_LIMIT == <<255, 255, 255, 127>>
UTF8_FLAG == 2048
DD_FLAG == 8
COMPRESSION_STORE == 0
COMPRESSION_DEFLATE == 8

LF_STRUCT == <<"4s", "H", "H", "H", "H", "H", "L", "L", "L", "H", "H">>
LF_TUPLE == <<"signature", "version", "flags", "compression", "mod_time", "mod_date",
              "crc", "comp_size", "uncomp_size", "fname_len", "extra_len">>
LF_MAGIC == <<80, 75, 3, 4>>

EXTRA_STRUCT == <<"H", "H">>
EXTRA_TUPLE == <<"signature", "size">>
EXTRA_64_STRUCT == <<"Q", "Q">>
EXTRA_64_TUPLE == <<"uncomp_size", "comp_size">>
CD_EXTRA_64_STRUCT == <<"Q", "Q", "Q">>
CD_EXTRA_64_TUPLE == <<"uncomp_size", "comp_size", "offset">>

DD_STRUCT == <<"L", "L", "L">>
DD_STRUCT64 == <<"L", "Q", "Q">>
DD_TUPLE == <<"crc", "comp_size", "uncomp_size">>
DD_MAGIC == <<80, 75, 7, 8>>

CDLF_STRUCT == <<"4s", "B", "B", "H", "H", "H", "H", "H", "L", "L", "L",
                 "H", "H", "H", "H", "H", "L", "L">>
CDLF_TUPLE == <<"signature", "version", "system", "version_ndd", "flags", "compression",
                "mod_time", "mod_date", "crc", "comp_size", "uncomp_size", "fname_len",
                "extra_len", "fcomm_len", "disk_start", "attrs_int", "attrs_ext", "offset">>
CDFH_MAGIC == <<80, 75, 1, 2>>

CD_END_STRUCT == <<"4s", "H", "H", "H", "H", "L", "L", "H">>
CD_END_TUPLE == <<"signature", "disk_num", "disk_cdstart", "disk_entries", "total_entries",
                  "cd_size", "cd_offset", "comment_len">>
CD_END_MAGIC == <<80, 75, 5, 6>>

CD_END_STRUCT64 == <<"4s", "Q", "H", "H", "I", "I", "Q", "Q", "Q", "Q">>
CD_END_TUPLE64 == <<"signature", "zip64_eocd_size", "version", "version_ndd", "disk_num",
                    "disk_cdstart", "disk_entries", "total_entries", "cd_size", "cd_offset">>
CD_END_MAGIC64 == <<80, 75, 6, 6>>

CD_LOC64_STRUCT == <<"4s", "L", "Q", "L">>
CD_LOC64_TUPLE == <<"signature", "disk_cdstart", "offset", "disk_count">>
CD_LOC64_MAGIC == <<80, 75, 6, 7>>

\* ---------------------------------------------------------------- struct
\* the byte width of one format code of struct.Struct(b"<...")
Width(code) ==
    CASE code = "4s" -> 4
      [] code = "B" -> 1
      [] code = "H" -> 2
      [] code = "L" -> 4
      [] code = "I" -> 4
      [] code = "Q" -> 8

RECURSIVE LEBytes(_, _)
LEBytes(n, w) == IF w = 0 THEN <<>> ELSE <<n % 256>> \o LEBytes(n \div 256, w - 1)

\* a Python int of the model's range, as the value handed to struct.pack
Num(n) == LEBytes(n, 4)
x_ffffffff == <<255, 255, 255, 255>>
x_ffff == <<255, 255>>

\* one packed field: the value in exactly w little-endian bytes
Fit(v, w) == [i \in 1..w |-> IF i <= Len(v) THEN v[i] ELSE 0]

RECURSIVE PackFrom(_, _, _, _)
PackFrom(S, T, fields, i) ==
    IF i > Len(S) THEN <<>>
    ELSE Fit(fields[T[i]], Width(S[i])) \o PackFrom(S, T, fields, i + 1)

\* STRUCT.pack(*TUPLE(**fields))
Pack(S, T, fields) == PackFrom(S, T, fields, 1)

RECURSIVE SizeFrom(_, _)
SizeFrom(S, i) == IF i > Len(S) THEN 0 ELSE Width(S[i]) + SizeFrom(S, i + 1)

\* STRUCT.size
StructSize(S) == SizeFrom(S, 1)

RECURSIVE NumGTFrom(_, _, _)
NumGTFrom(a, b, i) ==
    IF i = 0 THEN FALSE
    ELSE IF Fit(a, 8)[i] # Fit(b, 8)[i] THEN Fit(a, 8)[i] > Fit(b, 8)[i]
    ELSE NumGTFrom(a, b, i - 1)

\* a > b on ints carried as little-endian bytes
NumGT(a, b) == NumGTFrom(a, b, 8)

\* ---------------------------------------------------------------- zlib
\* a ^ b on bytes
RECURSIVE Xor8(_, _)
Xor8(a, b) ==
    IF a = 0 /\ b = 0 THEN 0 ELSE ((a + b) % 2) + 2 * Xor8(a \div 2, b \div 2)

\* a ^ b and a >> 1 on 32-bit values, held as 4 little-endian bytes
Xor32(a, b) == <<Xor8(a[1], b[1]), Xor8(a[2], b[2]), Xor8(a[3], b[3]), Xor8(a[4], b[4])>>
Shr1(a) ==
    <<(a[1] \div 2) + 128 * (a[2] % 2), (a[2] \div 2) + 128 * (a[3] % 2),
      (a[3] \div 2) + 128 * (a[4] % 2), a[4] \div 2>>

\* 0xEDB88320, the reflected CRC-32 polynomial
CrcPoly == <<32, 131, 184, 237>>

RECURSIVE CrcShift(_, _)
CrcShift(c, n) ==
    IF n = 0 THEN c
    ELSE CrcShift(IF c[1] % 2 = 1 THEN Xor32(Shr1(c), CrcPoly) ELSE Shr1(c), n - 1)

RECURSIVE CrcTableRange(_, _)
CrcTableRange(lo, hi) ==
    IF lo = hi THEN <<CrcShift(<<lo, 0, 0, 0>>, 8)>>
    ELSE CrcTableRange(lo, (lo + hi) \div 2) \o CrcTableRange(((lo + hi) \div 2) + 1, hi)

\* zlib's crc_table: entry i (at position i + 1) is byte i shifted through
\* the polynomial eight times
CrcTable == CrcTableRange(0, 255)

\* crc = crc_table[(crc ^ byte) & 0xff] ^ (crc >> 8)
CrcByte(c, byte) == Xor32(CrcTable[Xor8(c[1], byte) + 1], <<c[2], c[3], c[4], 0>>)

RECURSIVE CrcFold(_, _, _)
CrcFold(c, data, i) ==
    IF i > Len(data) THEN c ELSE CrcFold(CrcByte(c, data[i]), data, i + 1)

\* zlib.crc32(data, value), value and result as 4 little-endian bytes
crc32(data, value) == Xor32(CrcFold(Xor32(value, x_ffffffff), data, 1), x_ffffffff)

\* one stored block of a raw deflate stream: BFINAL/BTYPE=00, LEN, NLEN, data
StoredBlock(bfinal, data) ==
    <<bfinal>> \o LEBytes(Len(data), 2) \o LEBytes(65535 - Len(data), 2) \o data

\* compr.compress(chunk): the compressor buffers its input and hands out a
\* block once DeflateBufSize bytes are pending
compress(compr, chunk) ==
    LET pending == compr \o chunk
    IN  IF Len(pending) >= DeflateBufSize
        THEN [ret |-> StoredBlock(0, pending), compr |-> <<>>]
        ELSE [ret |-> <<>>, compr |-> pending]

\* mutant of flush: the final block is written without the pending input
flush_drops(compr) == StoredBlock(1, <<>>)
\* compr.flush(zlib.Z_FINISH)
flush(compr) == StoredBlock(1, compr)

\* ---------------------------------------------------------------- Processor
\* Python's None, and the value of a dict key that has not been set
None == "<None>"
Unset == 0 - 1

\* Processor._get_compression_methods: which process/tail pair is chosen
_get_compression_methods(cmethod) ==
    IF cmethod = None THEN "through"
    ELSE IF cmethod = "deflate" THEN "deflate"
    ELSE "UnsupportedCompressionError"

\* Processor.__init__ (the compressor of a deflate member starts empty)
Processor(file_struct) ==
    [crc |-> Num(0), o_size |-> 0, c_size |-> 0,
     method |-> _get_compression_methods(file_struct.cmethod), compr |-> <<>>]

\* mutants of _process_through: the running crc is not passed on; c_size is
\* not kept up
_process_through_nocrc(pcs, chunk) ==
    LET o_size == pcs.o_size + Len(chunk)
    IN  [ret |-> chunk,
         pcs |-> [pcs EXCEPT !.o_size = o_size, !.c_size = o_size,
                             !.crc = crc32(chunk, Num(0))]]

_process_through_nocsize(pcs, chunk) ==
    [ret |-> chunk,
     pcs |-> [pcs EXCEPT !.o_size = pcs.o_size + Len(chunk),
                         !.crc = crc32(chunk, pcs.crc)]]

_process_through(pcs, chunk) ==
    LET o_size == pcs.o_size + Len(chunk)
    IN  [ret |-> chunk,
         pcs |-> [pcs EXCEPT !.o_size = o_size, !.c_size = o_size,
                             !.crc = crc32(chunk, pcs.crc)]]

_no_tail(pcs) == [ret |-> <<>>, pcs |-> pcs]

_process_deflate(pcs, chunk) ==
    LET z == compress(pcs.compr, chunk)
    IN  [ret |-> z.ret,
         pcs |-> [pcs EXCEPT !.o_size = pcs.o_size + Len(chunk),
                             !.crc = crc32(chunk, pcs.crc),
                             !.compr = z.compr,
                             !.c_size = pcs.c_size + Len(z.ret)]]

\* mutant of _tail_deflate: the flushed bytes are not counted
_tail_deflate_uncounted(pcs) ==
    LET chunk == flush(pcs.compr)
    IN  [ret |-> chunk, pcs |-> [pcs EXCEPT !.compr = <<>>]]

_tail_deflate(pcs) ==
    LET chunk == flush(pcs.compr)
    IN  [ret |-> chunk,
         pcs |-> [pcs EXCEPT !.compr = <<>>, !.c_size = pcs.c_size + Len(chunk)]]

\* pcs.process(chunk) and pcs.tail(), as bound by the constructor
process(pcs, chunk) ==
    IF pcs.method = "through" THEN _process_through(pcs, chunk)
    ELSE _process_deflate(pcs, chunk)

tail(pcs) == IF pcs.method = "through" THEN _no_tail(pcs) ELSE _tail_deflate(pcs)

\* ---------------------------------------------------------------- the sources
\* what os.stat and reading give for each path: st_size as a little-endian
\* int, and the bytes read.  stat and read are separate calls; the model keeps
\* them apart so that a size above 2^31-1 keeps its width while the data
\* stays small.
PathA == <<47, 116, 47, 97>>
PathBig == <<47, 116, 47, 98, 105, 103>>
PathEmpty == <<47, 101>>
Paths == {PathA, PathBig, PathEmpty}
st_size(path) ==
    IF path = PathA THEN Num(3)
    ELSE IF path = PathBig THEN <<0, 0, 0, 128>>
    ELSE Num(0)
content(path) ==
    IF path = PathA THEN <<102, 111, 111>>
    ELSE IF path = PathBig THEN <<98, 105, 103>>
    ELSE <<>>

\* fh.read(self.chunksize) until b'': the blocks of a file
RECURSIVE Blocks(_)
Blocks(bytes) ==
    IF Len(bytes) = 0 THEN <<>>
    ELSE IF Len(bytes) <= chunksize THEN <<bytes>>
    ELSE <<SubSeq(bytes, 1, chunksize)>> \o Blocks(SubSeq(bytes, chunksize + 1, Len(bytes)))

\* data_generator: the chunks a source yields ('s': the iterable itself)
data_generator(src, src_type) == IF src_type = "s" THEN src ELSE Blocks(content(src))

\* mutant of aio_data_generator: an empty chunk of a stream ends it, as an
\* empty read ends a file
RECURSIVE UntilEmpty(_, _)
UntilEmpty(src, i) ==
    IF i > Len(src) \/ src[i] = <<>> THEN <<>> ELSE <<src[i]>> \o UntilEmpty(src, i + 1)
aio_data_generator_until_empty(src, src_type) ==
    IF src_type = "s" THEN UntilEmpty(src, 1) ELSE Blocks(content(src))

\* AioZipStream.data_generator: "while True: part = await fh.read(chunksize);
\* if not part: break; yield part" for a file, the source's chunks for a stream
RECURSIVE AioBlocks(_)
AioBlocks(bytes) ==
    LET part == SubSeq(bytes, 1, IF Len(bytes) < chunksize THEN Len(bytes) ELSE chunksize)
    IN  IF part = <<>> THEN <<>>
        ELSE <<part>> \o AioBlocks(SubSeq(bytes, Len(part) + 1, Len(bytes)))
aio_data_generator(src, src_type) ==
    IF src_type = "s" THEN src ELSE AioBlocks(content(src))

\* a member description: the dict's keys and the values of those present
Member(keys, file, stream, name, compression) ==
    [keys |-> keys, file |-> file, stream |-> stream, name |-> name,
     compression |-> compression]

\* descriptions that _create_file_struct accepts
GoodMembers ==
    { Member({"file"}, PathA, <<>>, <<>>, None),
      Member({"stream", "name", "compression"}, <<>>, <<<<7>>, <<8>>, <<9>>>>, <<233>>,
             "deflate"),
      Member({"stream", "name"}, <<>>, <<<<1>>, <<>>, <<2, 3>>>>, <<115>>, None),
      Member({"file", "name"}, PathEmpty, <<>>, <<101>>, None),
      Member({"file"}, PathBig, <<>>, <<>>, None) }

\* descriptions that it rejects whatever the configuration
BadMembers ==
    { Member({"name"}, <<>>, <<>>, <<120>>, None),
      Member({"file", "compression"}, PathBig, <<>>, <<>>, "bzip2"),
      Member({"stream", "name", "compression"}, <<>>, <<<<4>>>>, <<122>>, "store"),
      Member({"stream"}, <<>>, <<<<1>>>>, <<>>, None) }

SourceMembers == GoodMembers \cup BadMembers

\* readings of the wall clock: (year, month, day, hour, minute, second)
LocalTimes == << <<2026, 11, 1, 8, 27, 30>>, <<2026, 11, 1, 8, 27, 33>> >>

\* ---------------------------------------------------------------- ZipBase
\* mutants of zip64_required: a pinned-off mode is upgraded without an error;
\* the upgrade leaves the version behind; a second call undoes the upgrade
zip64_required_quiet(self) ==
    IF self.zip64 = "True" THEN [raised |-> FALSE, self |-> self]
    ELSE [raised |-> FALSE,
          self |-> [zip64 |-> "True", zip64headers |-> TRUE, version |-> ZIP64_VERSION]]

zip64_required_toggle(self) ==
    IF self.zip64 = "True"
    THEN [raised |-> FALSE,
          self |-> [zip64 |-> "None", zip64headers |-> FALSE, version |-> ZIP32_VERSION]]
    ELSE IF self.zip64 = "False" THEN [raised |-> TRUE, self |-> self]
    ELSE [raised |-> FALSE,
          self |-> [zip64 |-> "True", zip64headers |-> TRUE, version |-> ZIP64_VERSION]]

zip64_required_noversion(self) ==
    IF self.zip64 = "True" THEN [raised |-> FALSE, self |-> self]
    ELSE IF self.zip64 = "False" THEN [raised |-> TRUE, self |-> self]
    ELSE [raised |-> FALSE,
          self |-> [zip64 |-> "True", zip64headers |-> TRUE, version |-> self.version]]

\* zip64_required on self = [zip64, zip64headers, version]
zip64_required(self) ==
    IF self.zip64 = "True" THEN [raised |-> FALSE, self |-> self]
    ELSE IF self.zip64 = "False" THEN [raised |-> TRUE, self |-> self]
    ELSE [raised |-> FALSE,
          self |-> [zip64 |-> "True", zip64headers |-> TRUE, version |-> ZIP64_VERSION]]

\* ZipBase.__init__: the fields that depend on the zip64 argument
ZipBase(zip64arg) ==
    LET self == [zip64 |-> zip64arg, zip64headers |-> FALSE, version |-> ZIP32_VERSION]
    IN  IF zip64arg = "True" THEN zip64_required(self).self ELSE self

RECURSIVE LastSlash(_, _)
LastSlash(p, i) == IF i = 0 THEN 0 ELSE IF p[i] = 47 THEN i ELSE LastSlash(p, i - 1)

\* os.path.basename
basename(p) == SubSeq(p, LastSlash(p, Len(p)) + 1, Len(p))

\* str.encode("ascii") succeeds
\* mutant of IsAscii: every name is taken to encode as ASCII
IsAscii_any(name) == TRUE
IsAscii(name) == \A i \in 1..Len(name) : name[i] < 128

Utf8Char(cp) ==
    IF cp < 128 THEN <<cp>>
    ELSE IF cp < 2048 THEN <<192 + (cp \div 64), 128 + (cp % 64)>>
    ELSE <<224 + (cp \div 4096), 128 + ((cp \div 64) % 64), 128 + (cp % 64)>>

RECURSIVE Utf8From(_, _)
Utf8From(name, i) ==
    IF i > Len(name) THEN <<>> ELSE Utf8Char(name[i]) \o Utf8From(name, i + 1)

\* str.encode("utf-8")
Utf8(name) == Utf8From(name, 1)

\* the DOS date and time of dt (the fields do not overlap, so | is +)
dosdate(dt) == ((dt[1] - 1980) * 512 + dt[2] * 32 + dt[3]) % 65536
dostime(dt) == (dt[4] * 2048 + dt[5] * 32 + (dt[6] \div 2)) % 65536

\* mutant of cmpr_supported: the name "store" is let through as well
cmpr_supported_store(cmpr) == cmpr \in {None, "store", "deflate"}
\* "if cmpr not in (None, 'deflate'): raise UnsupportedCompressionError"
cmpr_supported(cmpr) == cmpr \in {None, "deflate"}

\* mutant of has_source: a description without a source is let through
has_source_any(data) == TRUE
\* "if 'file' in data ... elif 'stream' in data ... else: raise"
has_source(data) == "file" \in data.keys \/ "stream" \in data.keys

\* ZipBase._create_file_struct, with AioZipStream's override in front of it.
\* The result names the exception raised (err), the record built, self and the
\* description dict as the call leaves them, and whether zip64_required ran.
_create_file_struct(klass, aio_available, self, data, dt) ==
    LET stat_big == "file" \in data.keys /\ NumGT(st_size(data.file), ZIP32_LIMIT)
        z == IF stat_big THEN zip64_required(self) ELSE [raised |-> FALSE, self |-> self]
        cmpr == IF "compression" \in data.keys THEN data.compression ELSE None
        named == IF "name" \in data.keys THEN data
                 ELSE [data EXCEPT !.keys = data.keys \cup {"name"},
                                   !.name = basename(data.file)]
        file_struct ==
            [mod_time |-> dostime(dt), mod_date |-> dosdate(dt), crc |-> Num(0),
             offset |-> 0,
             flags |-> IF IsAscii(named.name) THEN DD_FLAG ELSE DD_FLAG + UTF8_FLAG,
             src |-> IF "file" \in data.keys THEN data.file ELSE data.stream,
             stype |-> IF "file" \in data.keys THEN "f" ELSE "s",
             cmethod |-> cmpr,
             cmpr_id |-> IF cmpr = None THEN COMPRESSION_STORE ELSE COMPRESSION_DEFLATE,
             fname |-> IF IsAscii(named.name) THEN named.name ELSE Utf8(named.name),
             size |-> Unset, csize |-> Unset]
        fail(e, s, called) ==
            [err |-> e, file_struct |-> file_struct, self |-> s, data |-> data,
             z64called |-> called]
    IN  IF klass = "AioZipStream" /\ "file" \in data.keys /\ ~aio_available
        THEN fail("MissingSourceError", self, FALSE)
        ELSE IF stat_big /\ z.raised THEN fail("Zip64RequiredError", self, TRUE)
        ELSE IF ~has_source(data)
        THEN fail("MissingSourceError", self, FALSE)
        ELSE IF ~cmpr_supported(cmpr)
        THEN fail("UnsupportedCompressionError", z.self, stat_big)
        ELSE IF "name" \notin data.keys /\ "file" \notin data.keys
        THEN fail("KeyError", z.self, stat_big)
        ELSE [err |-> "", file_struct |-> file_struct, self |-> z.self, data |-> named,
              z64called |-> stat_big]

_make_extra_field(signature, data) ==
    Pack(EXTRA_STRUCT, EXTRA_TUPLE, [signature |-> Num(signature), size |-> Num(Len(data))])
    \o data

_make_zip64_local_extra(fsize, compsize) ==
    _make_extra_field(1, Pack(EXTRA_64_STRUCT, EXTRA_64_TUPLE,
                              [uncomp_size |-> Num(fsize), comp_size |-> Num(compsize)]))

_make_local_file_header(self, file_struct) ==
    LET z64extra == _make_zip64_local_extra(0, 0)
        fields ==
            [signature |-> LF_MAGIC,
             version |-> Num(self.version),
             flags |-> Num(file_struct.flags),
             compression |-> Num(file_struct.cmpr_id),
             mod_time |-> Num(file_struct.mod_time),
             mod_date |-> Num(file_struct.mod_date),
             crc |-> Num(0),
             uncomp_size |-> IF self.zip64headers THEN x_ffffffff ELSE Num(0),
             comp_size |-> IF self.zip64headers THEN x_ffffffff ELSE Num(0),
             fname_len |-> Num(Len(file_struct.fname)),
             extra_len |-> IF self.zip64headers THEN Num(Len(z64extra)) ELSE Num(0)]
    IN  Pack(LF_STRUCT, LF_TUPLE, fields) \o file_struct.fname
        \o (IF self.zip64headers THEN z64extra ELSE <<>>)

\* the record as _make_data_descriptor leaves it (it is the dict in self.__files)
DescribedStruct(file_struct, crc, org_size, compr_size) ==
    [file_struct EXCEPT !.crc = Fit(crc, 4), !.size = org_size, !.csize = compr_size]

\* mutant of _make_data_descriptor: the width follows self.zip64 instead of
\* self.__zip64headers
_make_data_descriptor_mode(self, file_struct, crc, org_size, compr_size) ==
    LET fs == DescribedStruct(file_struct, crc, org_size, compr_size)
        fields == [uncomp_size |-> Num(fs.size), comp_size |-> Num(fs.csize),
                   crc |-> fs.crc]
    IN  DD_MAGIC \o (IF self.zip64 = "True" THEN Pack(DD_STRUCT64, DD_TUPLE, fields)
                     ELSE Pack(DD_STRUCT, DD_TUPLE, fields))

_make_data_descriptor(self, file_struct, crc, org_size, compr_size) ==
    LET fs == DescribedStruct(file_struct, crc, org_size, compr_size)
        fields == [uncomp_size |-> Num(fs.size), comp_size |-> Num(fs.csize),
                   crc |-> fs.crc]
    IN  DD_MAGIC \o (IF self.zip64headers THEN Pack(DD_STRUCT64, DD_TUPLE, fields)
                     ELSE Pack(DD_STRUCT, DD_TUPLE, fields))

\* _make_cdir_file_header: the exception it raises, "" if none
CdirHeaderError(self, file_struct) ==
    IF file_struct.csize = Unset THEN "KeyError"
    ELSE IF self.zip64headers THEN "AttributeError"
    ELSE ""

_make_cdir_file_header(self, file_struct) ==
    LET fields ==
            [signature |-> CDFH_MAGIC,
             version |-> Num(self.version),
             system |-> Num(3),
             version_ndd |-> Num(self.version),
             flags |-> Num(file_struct.flags),
             compression |-> Num(file_struct.cmpr_id),
             mod_time |-> Num(file_struct.mod_time),
             mod_date |-> Num(file_struct.mod_date),
             crc |-> file_struct.crc,
             comp_size |-> Num(file_struct.csize),
             uncomp_size |-> Num(file_struct.size),
             fname_len |-> Num(Len(file_struct.fname)),
             extra_len |-> Num(0),
             fcomm_len |-> Num(0),
             disk_start |-> Num(0),
             attrs_int |-> Num(0),
             attrs_ext |-> Num(0),
             offset |-> Num(file_struct.offset)]
    IN  Pack(CDLF_STRUCT, CDLF_TUPLE, fields) \o file_struct.fname

\* mutants of _make_cdend: cd_offset is taken behind the central directory;
\* the sentinels follow self.zip64 instead of self.__zip64headers; the total
\* entry count is a constant
_make_cdend_behind(self, files, cdir_size, offset) ==
    LET z == self.zip64headers
        fields ==
            [signature |-> CD_END_MAGIC,
             disk_num |-> Num(0),
             disk_cdstart |-> Num(0),
             disk_entries |-> IF z THEN x_ffff ELSE Num(Len(files)),
             total_entries |-> IF z THEN x_ffff ELSE Num(Len(files)),
             cd_size |-> IF z THEN x_ffffffff ELSE Num(cdir_size),
             cd_offset |-> IF z THEN x_ffffffff ELSE Num(offset + cdir_size),
             comment_len |-> Num(0)]
    IN  Pack(CD_END_STRUCT, CD_END_TUPLE, fields)

_make_cdend_miscount(self, files, cdir_size, offset) ==
    LET z == self.zip64headers
        fields ==
            [signature |-> CD_END_MAGIC,
             disk_num |-> Num(0),
             disk_cdstart |-> Num(0),
             disk_entries |-> IF z THEN x_ffff ELSE Num(Len(files)),
             total_entries |-> IF z THEN x_ffff ELSE Num(1),
             cd_size |-> IF z THEN x_ffffffff ELSE Num(cdir_size),
             cd_offset |-> IF z THEN x_ffffffff ELSE Num(offset),
             comment_len |-> Num(0)]
    IN  Pack(CD_END_STRUCT, CD_END_TUPLE, fields)

_make_cdend_flag(self, files, cdir_size, offset) ==
    LET z == self.zip64 = "True"
        fields ==
            [signature |-> CD_END_MAGIC,
             disk_num |-> Num(0),
             disk_cdstart |-> Num(0),
             disk_entries |-> IF z THEN x_ffff ELSE Num(Len(files)),
             total_entries |-> IF z THEN x_ffff ELSE Num(Len(files)),
             cd_size |-> IF z THEN x_ffffffff ELSE Num(cdir_size),
             cd_offset |-> IF z THEN x_ffffffff ELSE Num(offset),
             comment_len |-> Num(0)]
    IN  Pack(CD_END_STRUCT, CD_END_TUPLE, fields)

_make_cdend(self, files, cdir_size, offset) ==
    LET z == self.zip64headers
        fields ==
            [signature |-> CD_END_MAGIC,
             disk_num |-> Num(0),
             disk_cdstart |-> Num(0),
             disk_entries |-> IF z THEN x_ffff ELSE Num(Len(files)),
             total_entries |-> IF z THEN x_ffff ELSE Num(Len(files)),
             cd_size |-> IF z THEN x_ffffffff ELSE Num(cdir_size),
             cd_offset |-> IF z THEN x_ffffffff ELSE Num(offset),
             comment_len |-> Num(0)]
    IN  Pack(CD_END_STRUCT, CD_END_TUPLE, fields)

_make_cdend64(self, files, cdir_size, offset) ==
    LET fields ==
            [signature |-> CD_END_MAGIC64,
             zip64_eocd_size |-> Num(StructSize(CD_END_STRUCT64) - 12),
             version |-> Num(self.version),
             version_ndd |-> Num(self.version),
             disk_num |-> Num(0),
             disk_cdstart |-> Num(0),
             disk_entries |-> Num(Len(files)),
             total_entries |-> Num(Len(files)),
             cd_size |-> Num(cdir_size),
             cd_offset |-> Num(offset)]
    IN  Pack(CD_END_STRUCT64, CD_END_TUPLE64, fields)

_make_eocd64_locator(offset) ==
    Pack(CD_LOC64_STRUCT, CD_LOC64_TUPLE,
         [signature |-> CD_LOC64_MAGIC, disk_cdstart |-> Num(0), offset |-> Num(offset),
          disk_count |-> Num(1)])

\* ---------------------------------------------------------------- the state
\* no file is open
NoFile == <<>>

VARIABLES
    klass,            \* "ZipStream" or "AioZipStream"
    aio_available,    \* aiozipstream.aio_available: the aiofiles import succeeded
    zip64arg,         \* the zip64 argument the constructor was given
    source_of_files,  \* self._source_of_files
    zs,               \* self.zip64, self.__zip64headers, self.__version
    files,            \* self.__files
    cdir_size,        \* self.__cdir_size
    offset,           \* self.__offset
    pc,               \* where the stream() generator is suspended
    idx,              \* stream(): the position of `source` in the member list
    rd,               \* data_generator: chunks of the current source read so far
    pcs,              \* _stream_single_file: the Processor of the current member
    tpos,             \* _make_end_structures: central-directory headers yielded
    eocd64position,   \* _make_end_structures: its local of that name
    out,              \* the chunks this iteration has yielded, in order
    err,              \* the exception that ended this iteration, "" if none
    builds,           \* stream() iterations started on this object
    zs0,              \* zs as it was when this iteration was started
    begun,            \* self.__files, __cdir_size, __offset as they were then
    fh,               \* data_generator: the file it holds open, <<>> if none
    prev,             \* the last iteration that ran to its end: its chunks and its zs0
    held,             \* what this generator's locals refer to: its file_struct, its list
    other,            \* the locals of a second generator of this object, set aside
    z64call           \* whether the last step ran zip64_required, and if it raised

vars == <<klass, aio_available, zip64arg, source_of_files, zs, files, cdir_size, offset,
          pc, idx, rd, pcs, tpos, eocd64position, out, err, builds, zs0, begun, fh, prev, z64call,
          held, other>>

config == <<klass, aio_available, zip64arg>>

RECURSIVE SeqsUpTo(_, _)
SeqsUpTo(S, n) ==
    IF n = 0 THEN {<<>>}
    ELSE LET shorter == SeqsUpTo(S, n - 1)
         IN  shorter \cup {Append(q, m) : q \in shorter, m \in S}

\* the member lists of up to n descriptions.  stream() never looks past a
\* description that is rejected, so a rejected one is given last.
MemberLists(n) ==
    SeqsUpTo(GoodMembers, n)
    \cup (IF n = 0 THEN {}
          ELSE {Append(q, m) : q \in SeqsUpTo(GoodMembers, n - 1), m \in BadMembers})

NoCall == [called |-> FALSE, raised |-> FALSE]
\* a generator that holds no file_struct and iterates no list
NoStruct == [stype |-> None]
HoldsNothing == [at |-> 0, fs |-> NoStruct, cut |-> FALSE, lst |-> <<>>]
\* no second generator
NoOther(z) ==
    [pc |-> "none", idx |-> 0, rd |-> 0, pcs |-> Processor([cmethod |-> None]), tpos |-> 0,
     eocd64position |-> 0, out |-> <<>>, err |-> "", fh |-> NoFile, zs0 |-> z,
     begun |-> [files |-> <<>>, cdir_size |-> 0, offset |-> 0], held |-> HoldsNothing]
Chunk(kind, member, bytes) == [kind |-> kind, member |-> member, bytes |-> bytes]

\* the object after __init__, no stream() started yet
Init ==
    /\ klass \in {"ZipStream", "AioZipStream"}
    /\ aio_available \in (IF klass = "ZipStream" THEN {TRUE} ELSE BOOLEAN)
    /\ zip64arg \in {"None", "True", "False"}
    /\ source_of_files \in MemberLists(MaxMembers)
    /\ zs = ZipBase(zip64arg)
    /\ files = <<>>
    /\ cdir_size = 0
    /\ offset = 0
    /\ pc = "idle"
    /\ idx = 0
    /\ rd = 0
    /\ pcs = Processor([cmethod |-> None])
    /\ tpos = 0
    /\ eocd64position = 0
    /\ out = <<>>
    /\ err = ""
    /\ builds = 0
    /\ zs0 = ZipBase(zip64arg)
    /\ begun = [files |-> <<>>, cdir_size |-> 0, offset |-> 0]
    /\ fh = NoFile
    /\ prev = [done |-> FALSE, out |-> <<>>, zs0 |-> ZipBase(zip64arg)]
    /\ z64call = NoCall
    /\ held = HoldsNothing
    /\ other = NoOther(ZipBase(zip64arg))

\* ---------------------------------------------------------------- the caller
\* the caller asks for the ZIP64 upgrade while no iteration is under way
CallZip64Required ==
    /\ pc \in {"idle", "finished", "failed", "closed"}
    /\ LET r == zip64_required(zs)
       IN  /\ zs' = r.self
           /\ z64call' = [called |-> TRUE, raised |-> r.raised]
    /\ UNCHANGED <<config, source_of_files, files, cdir_size, offset, pc, idx, rd, pcs,
                   tpos, eocd64position, out, err, builds, zs0, begun, fh, prev,
                   held, other>>

\* zs.stream(): a new generator; nothing of its body has run yet
NewStream ==
    /\ pc \in {"idle", "finished", "failed", "closed"}
    /\ builds < MaxBuilds
    /\ builds' = builds + 1
    /\ zs0' = zs
    /\ begun' = [files |-> files, cdir_size |-> cdir_size, offset |-> offset]
    /\ prev' = IF pc = "finished" THEN [done |-> TRUE, out |-> out, zs0 |-> zs0] ELSE prev
    /\ pc' = "start"
    /\ idx' = 0
    /\ rd' = 0
    /\ tpos' = 0
    /\ out' = <<>>
    /\ err' = ""
    /\ z64call' = NoCall
    /\ held' = [held EXCEPT !.cut = FALSE, !.lst = <<>>]
    /\ UNCHANGED <<config, source_of_files, zs, files, cdir_size, offset, pcs,
                   eocd64position, fh, other>>

\* ---------------------------------------------------------------- stream()
\* Each action below is one next() on the generator: the code from one yield
\* to the next, or to the exception or the return that ends the iteration.

\* mutant of AtLoopHead: the next source is taken while data is under way
AtLoopHead_early == pc \in {"start", "after_dd", "in_data"}
AtLoopHead == pc \in {"start", "after_dd"}
InData == pc \in {"after_header", "in_data"}
\* time.localtime(): the wall clock moves on from one iteration to the next
localtime == LocalTimes[IF builds < Len(LocalTimes) THEN builds ELSE Len(LocalTimes)]
\* the record of the member in flight, file_struct of stream(): the dict it
\* appended to self.__files, which is the last one there unless another
\* generator of the object appended since, and is no longer there once
\* another generator's _cleanup() replaced the list
cur == IF held.at > 0 THEN files[held.at] ELSE held.fs
\* the list "for file_struct in self.__files" iterates: self.__files as it
\* grows, or the list it was before another generator's _cleanup()
thelist == IF held.cut THEN held.lst ELSE files
\* _stream_single_file builds the Processor when it resumes after the header
curpcs == IF pc = "after_header" THEN Processor(cur) ELSE pcs
chunks ==
    IF klass = "AioZipStream" THEN aio_data_generator(cur.src, cur.stype)
    ELSE data_generator(cur.src, cur.stype)

\* mutants of _offset_add: = for +=; chunks are counted, not their bytes
_offset_assign(value) == value
_offset_count(value) == offset + 1
_offset_add(value) == offset + value
_offset_get == offset
_add_file_to_cdir(file_struct) == Append(files, file_struct)
\* mutant of _cleanup: the offset is not reset
_cleanup_keeps_offset == [files |-> <<>>, cdir_size |-> 0, offset |-> offset]
\* _cleanup: what it leaves in self.__files, self.__cdir_size, self.__offset
_cleanup == [files |-> <<>>, cdir_size |-> 0, offset |-> 0]

\* stream() takes the next source: _create_file_struct, the offset, the entry
\* list, and the local file header is yielded
BeginMember ==
    /\ AtLoopHead
    /\ idx < Len(source_of_files)
    /\ LET r == _create_file_struct(klass, aio_available, zs, source_of_files[idx + 1],
                                    localtime)
           file_struct == [r.file_struct EXCEPT !.offset = _offset_get]
           chunk == _make_local_file_header(r.self, file_struct)
       IN  /\ r.err = ""
           /\ zs' = r.self
           /\ z64call' = [called |-> r.z64called, raised |-> FALSE]
           /\ source_of_files' = [source_of_files EXCEPT ![idx + 1] = r.data]
           /\ files' = _add_file_to_cdir(file_struct)
           /\ held' = [held EXCEPT !.at = Len(files) + 1]
           /\ offset' = _offset_add(Len(chunk))
           /\ out' = Append(out, Chunk("lfh", idx + 1, chunk))
    /\ idx' = idx + 1
    /\ rd' = 0
    /\ pc' = "after_header"
    /\ UNCHANGED <<config, cdir_size, pcs, tpos, eocd64position, err, builds, zs0, begun, fh, prev,
                   other>>

\* _create_file_struct raises: the iteration ends with that exception
BeginMemberRaises ==
    /\ AtLoopHead
    /\ idx < Len(source_of_files)
    /\ LET r == _create_file_struct(klass, aio_available, zs, source_of_files[idx + 1],
                                    localtime)
       IN  /\ r.err # ""
           /\ err' = r.err
           /\ zs' = r.self
           /\ z64call' = [called |-> r.z64called, raised |-> r.err = "Zip64RequiredError"]
    /\ idx' = idx + 1
    /\ pc' = "failed"
    /\ UNCHANGED <<config, source_of_files, files, cdir_size, offset, rd, pcs, tpos,
                   eocd64position, out, builds, zs0, begun, fh, prev,
                   held, other>>

\* mutant of with_exit: the file is left open
with_exit_leak(handle) == handle
\* "with open(src, 'rb') as fh" is left, by the loop's end or by an exception
\* passing through it: the file is closed
with_exit(handle) == NoFile

\* the source has another chunk: pcs.process(chunk) is yielded.  A file is
\* opened by the first read and stays open while the generator is suspended.
ReadChunk ==
    /\ InData
    /\ rd < Len(chunks)
    /\ LET r == process(curpcs, chunks[rd + 1])
       IN  /\ pcs' = r.pcs
           /\ offset' = _offset_add(Len(r.ret))
           /\ out' = Append(out, Chunk("data", idx, r.ret))
    /\ rd' = rd + 1
    /\ fh' = IF cur.stype = "f" THEN cur.src ELSE fh
    /\ pc' = "in_data"
    /\ z64call' = NoCall
    /\ UNCHANGED <<config, source_of_files, zs, files, cdir_size, idx, tpos,
                   eocd64position, err, builds, zs0, begun, prev,
                   held, other>>

\* the source is exhausted and pcs.tail() is not empty: it is yielded
TailFlush ==
    /\ InData
    /\ rd = Len(chunks)
    /\ LET r == tail(curpcs)
       IN  /\ r.ret # <<>>
           /\ pcs' = r.pcs
           /\ offset' = _offset_add(Len(r.ret))
           /\ out' = Append(out, Chunk("tail", idx, r.ret))
    /\ fh' = with_exit(fh)
    /\ pc' = "after_tail"
    /\ z64call' = NoCall
    /\ UNCHANGED <<config, source_of_files, zs, files, cdir_size, idx, rd, tpos,
                   eocd64position, err, builds, zs0, begun, prev,
                   held, other>>

\* the data descriptor is yielded: after the tail, or straight after the data
\* when the tail is empty
Descriptor ==
    /\ IF pc = "after_tail" THEN TRUE
       ELSE InData /\ rd = Len(chunks) /\ tail(curpcs).ret = <<>>
    /\ LET p == IF pc = "after_tail" THEN pcs ELSE tail(curpcs).pcs
           chunk == _make_data_descriptor(zs, cur, p.crc, p.o_size, p.c_size)
       IN  /\ pcs' = p
           /\ IF held.at > 0
              THEN /\ files' = [files EXCEPT ![held.at] =
                                    DescribedStruct(cur, p.crc, p.o_size, p.c_size)]
                   /\ held' = held
              ELSE /\ held' = [held EXCEPT !.fs =
                                    DescribedStruct(cur, p.crc, p.o_size, p.c_size)]
                   /\ files' = files
           /\ offset' = _offset_add(Len(chunk))
           /\ out' = Append(out, Chunk("dd", idx, chunk))
    /\ fh' = with_exit(fh)
    /\ pc' = "after_dd"
    /\ z64call' = NoCall
    /\ UNCHANGED <<config, source_of_files, zs, cdir_size, idx, rd, tpos, eocd64position,
                   err, builds, zs0, begun, prev,
                   other>>

\* ---------------------------------------------------------------- the trailer
InCdirLoop == (AtLoopHead /\ idx = Len(source_of_files)) \/ pc = "in_cdir"

\* _make_end_structures: the next central-directory header is yielded
CdirHeader ==
    /\ InCdirLoop
    /\ tpos < Len(thelist)
    /\ CdirHeaderError(zs, thelist[tpos + 1]) = ""
    /\ LET chunk == _make_cdir_file_header(zs, thelist[tpos + 1])
       IN  /\ cdir_size' = cdir_size + Len(chunk)
           /\ out' = Append(out, Chunk("cdfh", tpos + 1, chunk))
    /\ tpos' = tpos + 1
    /\ pc' = "in_cdir"
    /\ z64call' = NoCall
    /\ UNCHANGED <<config, source_of_files, zs, files, offset, idx, rd, pcs,
                   eocd64position, err, builds, zs0, begun, fh, prev,
                   held, other>>

\* _make_cdir_file_header raises: the iteration ends with that exception
CdirHeaderRaises ==
    /\ InCdirLoop
    /\ tpos < Len(thelist)
    /\ CdirHeaderError(zs, thelist[tpos + 1]) # ""
    /\ err' = CdirHeaderError(zs, thelist[tpos + 1])
    /\ pc' = "failed"
    /\ z64call' = NoCall
    /\ UNCHANGED <<config, source_of_files, zs, files, cdir_size, offset, idx, rd, pcs,
                   tpos, eocd64position, out, builds, zs0, begun, fh, prev,
                   held, other>>

\* after the headers, with ZIP64 headers on: the ZIP64 EOCD record is yielded
Eocd64 ==
    /\ InCdirLoop
    /\ tpos = Len(thelist)
    /\ zs.zip64headers
    /\ eocd64position' = offset + cdir_size
    /\ out' = Append(out, Chunk("eocd64", 0, _make_cdend64(zs, files, cdir_size, offset)))
    /\ pc' = "after_eocd64"
    /\ z64call' = NoCall
    /\ UNCHANGED <<config, source_of_files, zs, files, cdir_size, offset, idx, rd, pcs,
                   tpos, err, builds, zs0, begun, fh, prev,
                   held, other>>

\* the ZIP64 EOCD locator is yielded
Locator64 ==
    /\ pc = "after_eocd64"
    /\ out' = Append(out, Chunk("loc64", 0, _make_eocd64_locator(eocd64position)))
    /\ pc' = "after_loc64"
    /\ z64call' = NoCall
    /\ UNCHANGED <<config, source_of_files, zs, files, cdir_size, offset, idx, rd, pcs,
                   tpos, eocd64position, err, builds, zs0, begun, fh, prev,
                   held, other>>

\* the EOCD record is yielded
Eocd ==
    /\ IF pc = "after_loc64" THEN TRUE
       ELSE InCdirLoop /\ tpos = Len(thelist) /\ ~zs.zip64headers
    /\ out' = Append(out, Chunk("eocd", 0, _make_cdend(zs, files, cdir_size, _offset_get)))
    /\ pc' = "after_eocd"
    /\ z64call' = NoCall
    /\ UNCHANGED <<config, source_of_files, zs, files, cdir_size, offset, idx, rd, pcs,
                   tpos, eocd64position, err, builds, zs0, begun, fh, prev,
                   held, other>>

\* a generator set aside, once another's _cleanup() has bound self.__files to
\* a new list: the dict and the list it refers to are no longer the object's
Detached(g) ==
    [g EXCEPT !.held =
        [at |-> 0,
         fs |-> IF g.held.at > 0 THEN files[g.held.at] ELSE g.held.fs,
         cut |-> g.held.cut \/ g.pc = "in_cdir",
         lst |-> IF g.held.cut THEN g.held.lst
                 ELSE IF g.pc = "in_cdir" THEN files ELSE <<>>]]

\* the generator runs to its end: _cleanup()
Finish ==
    /\ pc = "after_eocd"
    /\ held' = HoldsNothing
    /\ other' = IF other.pc = "none" THEN other ELSE Detached(other)
    /\ files' = _cleanup.files
    /\ cdir_size' = _cleanup.cdir_size
    /\ offset' = _cleanup.offset
    /\ pc' = "finished"
    /\ z64call' = NoCall
    /\ UNCHANGED <<config, source_of_files, zs, idx, rd, pcs, tpos, eocd64position, out,
                   err, builds, zs0, begun, fh, prev>>

Next ==
    \/ CallZip64Required
    \/ NewStream
    \/ BeginMember
    \/ BeginMemberRaises
    \/ ReadChunk
    \/ TailFlush
    \/ Descriptor
    \/ CdirHeader
    \/ CdirHeaderRaises
    \/ Eocd64
    \/ Locator64
    \/ Eocd
    \/ Finish

Spec == Init /\ [][Next]_vars

\* ---------------------------------------------------------------- reading the output
\* the bytes of one field of a packed record
RECURSIVE SizeUpTo(_, _)
SizeUpTo(S, k) == IF k = 0 THEN 0 ELSE Width(S[k]) + SizeUpTo(S, k - 1)
IndexOf(T, name) == CHOOSE i \in 1..Len(T) : T[i] = name
Field(bytes, S, T, name) ==
    LET k == IndexOf(T, name)
        before == SizeUpTo(S, k - 1)
    IN  SubSeq(bytes, before + 1, before + Width(S[k]))

\* the positions in o of the chunks of one kind, in order
RECURSIVE Positions(_, _, _)
Positions(o, kind, i) ==
    IF i > Len(o) THEN <<>>
    ELSE (IF o[i].kind = kind THEN <<i>> ELSE <<>>) \o Positions(o, kind, i + 1)
Pos(kind) == Positions(out, kind, 1)

\* the total byte length of the chunks yielded before position i
RECURSIVE BytesBefore(_)
BytesBefore(i) == IF i <= 1 THEN 0 ELSE Len(out[i - 1].bytes) + BytesBefore(i - 1)
TotalBytes == BytesBefore(Len(out) + 1)

\* a little-endian field as a number (for fields that hold no sentinel)
RECURSIVE LEValue(_)
LEValue(v) == IF Len(v) = 0 THEN 0 ELSE v[1] + 256 * LEValue(Tail(v))

RECURSIVE Concat(_)
Concat(seqs) == IF Len(seqs) = 0 THEN <<>> ELSE Head(seqs) \o Concat(Tail(seqs))

\* the chunks and the bytes a member's source gives
SourceChunks(m) == IF "file" \in m.keys THEN Blocks(content(m.file)) ELSE m.stream
SourceBytes(m) == Concat(SourceChunks(m))
IsStore(m) == "compression" \notin m.keys \/ m.compression = None
IsBigFile(m) == "file" \in m.keys /\ NumGT(st_size(m.file), ZIP32_LIMIT)

\* every chunk of the iteration has been yielded
Completed == pc \in {"after_eocd", "finished"}
TrailerKinds == {"cdfh", "eocd64", "loc64", "eocd"}

CdfhField(i, name) == Field(out[i].bytes, CDLF_STRUCT, CDLF_TUPLE, name)
LfhField(i, name) == Field(out[i].bytes, LF_STRUCT, LF_TUPLE, name)
EocdField(i, name) == Field(out[i].bytes, CD_END_STRUCT, CD_END_TUPLE, name)
\* a field of a data descriptor, behind its magic
DdField(i, name) ==
    Field(SubSeq(out[i].bytes, 5, Len(out[i].bytes)),
          IF Len(out[i].bytes) = 4 + StructSize(DD_STRUCT) THEN DD_STRUCT ELSE DD_STRUCT64,
          DD_TUPLE, name)

\* ---------------------------------------------------------------- claims

\* C1: the central directory holds one entry per member, the entries' recorded
\* offsets are strictly increasing, and each recorded offset is the total byte
\* length of the chunks yielded before that member's local file header.
C1_CdirOffsets ==
    LET L == Pos("lfh")
        C == Pos("cdfh")
    IN  /\ Len(C) <= Len(L)
        /\ \A k \in 1..Len(C) :
              /\ CdfhField(C[k], "offset") = Num(BytesBefore(L[k]))
              /\ out[C[k]].bytes[StructSize(CDLF_STRUCT) + 1] =
                    out[L[k]].bytes[StructSize(LF_STRUCT) + 1]
        /\ \A k \in 1..(Len(C) - 1) :
              LEValue(CdfhField(C[k], "offset")) < LEValue(CdfhField(C[k + 1], "offset"))
        /\ Completed => Len(C) = Len(source_of_files) /\ Len(L) = Len(source_of_files)

\* two members streamed to the end by the asynchronous class, second iteration
C1_Witness ==
    /\ pc = "finished"
    /\ klass = "AioZipStream"
    /\ builds = 2
    /\ Len(Pos("cdfh")) = 2
    /\ LEValue(CdfhField(Pos("cdfh")[2], "offset")) > 0

\* C2 (as stated): a completed stream() ends with exactly one EOCD record whose
\* central-directory offset plus size is the total length minus the EOCD size,
\* the offset pointing at the first central-directory header.
C2_EocdLocatesCdir ==
    Completed =>
        LET E == Pos("eocd")
            C == Pos("cdfh")
            rest == TotalBytes - StructSize(CD_END_STRUCT)
        IN  /\ Len(E) = 1
            /\ E[1] = Len(out)
            /\ Len(out[E[1]].bytes) = StructSize(CD_END_STRUCT)
            /\ \E a \in 0..rest :
                  /\ EocdField(E[1], "cd_offset") = Num(a)
                  /\ EocdField(E[1], "cd_size") = Num(rest - a)
                  /\ Len(C) > 0 => a = BytesBefore(C[1])

\* C2 (amended): the same when the trailer is written with ZIP64 headers off;
\* when it is written with ZIP64 headers on, the one EOCD record at the end
\* holds 0xFFFFFFFF as central-directory size and offset.
C2_EocdLocatesCdir32 ==
    pc = "after_eocd" =>
        LET E == Pos("eocd")
            C == Pos("cdfh")
            rest == TotalBytes - StructSize(CD_END_STRUCT)
        IN  /\ Len(E) = 1
            /\ E[1] = Len(out)
            /\ Len(out[E[1]].bytes) = StructSize(CD_END_STRUCT)
            /\ IF zs.zip64headers
               THEN /\ EocdField(E[1], "cd_offset") = x_ffffffff
                    /\ EocdField(E[1], "cd_size") = x_ffffffff
               ELSE \E a \in 0..rest :
                      /\ EocdField(E[1], "cd_offset") = Num(a)
                      /\ EocdField(E[1], "cd_size") = Num(rest - a)
                      /\ Len(C) > 0 => a = BytesBefore(C[1])

C2_Witness ==
    /\ pc = "after_eocd"
    /\ ~zs.zip64headers
    /\ Len(Pos("cdfh")) = 2
    /\ LEValue(EocdField(Len(out), "cd_offset")) > 0

\* C3: for every member of a completed build, the CRC-32 in its data descriptor
\* and the CRC-32 in its central-directory header are equal, and both are the
\* CRC-32 over all the bytes of the member's source, starting from 0.
C3_CrcMatches ==
    Completed =>
        LET D == Pos("dd")
            C == Pos("cdfh")
        IN  /\ Len(D) = Len(source_of_files)
            /\ Len(C) = Len(source_of_files)
            /\ \A k \in 1..Len(source_of_files) :
                  /\ DdField(D[k], "crc") = CdfhField(C[k], "crc")
                  /\ DdField(D[k], "crc") = crc32(SourceBytes(source_of_files[k]), Num(0))

\* a store member read in two blocks and a deflate member, both complete
C3_Witness ==
    /\ Completed
    /\ Len(source_of_files) = 2
    /\ Len(SourceChunks(source_of_files[1])) >= 2
    /\ Len(SourceBytes(source_of_files[1])) >= 3
    /\ ~IsStore(source_of_files[2])

\* the ZIP64 extra field behind the name of a local or central header
ExtraOf(i, S, T) ==
    SubSeq(out[i].bytes, StructSize(S) + LEValue(Field(out[i].bytes, S, T, "fname_len")) + 1,
           Len(out[i].bytes))
AllAccepted ==
    /\ klass = "ZipStream" \/ aio_available
    /\ \A k \in 1..Len(source_of_files) : source_of_files[k] \notin BadMembers

\* C4: in "auto" mode with a file member whose known size exceeds 2^31-1 (and
\* no member that is rejected), stream() completes, the output holds a ZIP64
\* EOCD record and a ZIP64 EOCD locator, and that member's local and central
\* headers carry 0xFFFFFFFF sizes and a ZIP64 extra field (signature 0x0001)
\* with the member's true sizes (and, in the central directory, its offset).
C4_AutoLargeFile ==
    (/\ zip64arg = "None"
     /\ builds = 1
     /\ AllAccepted
     /\ \E k \in 1..Len(source_of_files) : IsBigFile(source_of_files[k]))
    => /\ pc # "failed"
       /\ Completed =>
            /\ Len(Pos("eocd64")) = 1
            /\ Len(Pos("loc64")) = 1
            /\ \A k \in 1..Len(source_of_files) :
                  IsBigFile(source_of_files[k]) =>
                    LET l == Pos("lfh")[k]
                        c == Pos("cdfh")[k]
                        n == Num(Len(SourceBytes(source_of_files[k])))
                        lx == ExtraOf(l, LF_STRUCT, LF_TUPLE)
                        cx == ExtraOf(c, CDLF_STRUCT, CDLF_TUPLE)
                    IN  /\ LfhField(l, "comp_size") = x_ffffffff
                        /\ LfhField(l, "uncomp_size") = x_ffffffff
                        /\ CdfhField(c, "comp_size") = x_ffffffff
                        /\ CdfhField(c, "uncomp_size") = x_ffffffff
                        /\ SubSeq(lx, 1, 2) = <<1, 0>>
                        /\ SubSeq(cx, 1, 2) = <<1, 0>>
                        /\ SubSeq(lx, 5, 20) = Fit(n, 8) \o Fit(n, 8)
                        /\ SubSeq(cx, 5, 28) =
                              Fit(n, 8) \o Fit(n, 8) \o Fit(Num(BytesBefore(l)), 8)

\* C5: constructed with zip64=True, every local file header carries 0xFFFFFFFF
\* in both size fields with a ZIP64 extra field, and the trailer holds a ZIP64
\* EOCD record and a ZIP64 EOCD locator before the EOCD record.
C5_ForcedOn ==
    zip64arg = "True" =>
        /\ \A k \in 1..Len(Pos("lfh")) :
              LET l == Pos("lfh")[k]
              IN  /\ LfhField(l, "comp_size") = x_ffffffff
                  /\ LfhField(l, "uncomp_size") = x_ffffffff
                  /\ LEValue(LfhField(l, "extra_len")) > 0
                  /\ SubSeq(ExtraOf(l, LF_STRUCT, LF_TUPLE), 1, 2) = <<1, 0>>
        /\ Completed =>
              /\ Len(Pos("eocd64")) = 1
              /\ Len(Pos("loc64")) = 1
              /\ Pos("eocd64")[1] + 1 = Pos("loc64")[1]
              /\ Pos("loc64")[1] + 1 = Pos("eocd")[1]

\* the normalizer has come to stat the next member and finds it too large
BigFileIsNext ==
    /\ AtLoopHead
    /\ idx < Len(source_of_files)
    /\ IsBigFile(source_of_files[idx + 1])
    /\ klass = "ZipStream" \/ aio_available

\* C6: with ZIP64 forced off, a member whose known size exceeds 2^31-1 makes
\* stream() fail with Zip64RequiredError when its turn comes: no chunk of that
\* member is ever yielded (earlier members' chunks may have been) and no
\* trailer is yielded.
C6_ForcedOffFails ==
    zip64arg = "False" =>
        /\ \A i \in 1..Len(out) :
              out[i].kind \notin TrailerKinds => ~IsBigFile(source_of_files[out[i].member])
        /\ (\E k \in 1..Len(source_of_files) : IsBigFile(source_of_files[k]))
              => \A i \in 1..Len(out) : out[i].kind \notin TrailerKinds
        /\ BigFileIsNext => ENABLED BeginMemberRaises /\ ~ENABLED BeginMember
        /\ (pc = "failed" /\ IsBigFile(source_of_files[idx])
            /\ (klass = "ZipStream" \/ aio_available))
              => /\ err = "Zip64RequiredError"
                 /\ \A i \in 1..Len(out) : out[i].member < idx

\* the large file is the second member: the first one's chunks are out
C6_Witness ==
    /\ zip64arg = "False"
    /\ pc = "failed"
    /\ err = "Zip64RequiredError"
    /\ idx = 2
    /\ Len(out) >= 3

\* C7: zip64_required() has three outcomes: with ZIP64 enabled it changes
\* nothing and raises nothing; with the mode pinned to disabled it raises and
\* leaves mode flag, headers flag and version as they were; with the mode
\* undecided it sets the mode flag and the headers flag and takes the version
\* from 20 to 45.
C7_UpgradeOutcomes ==
    [][z64call'.called =>
          IF zs.zip64 = "True" THEN zs' = zs /\ ~z64call'.raised
          ELSE IF zs.zip64 = "False" THEN zs' = zs /\ z64call'.raised
          ELSE /\ ~z64call'.raised
               /\ zs'.zip64 = "True"
               /\ zs'.zip64headers
               /\ zs.version = ZIP32_VERSION
               /\ zs'.version = ZIP64_VERSION]_vars

\* the upgrade was made by the normalizer for a large file in auto mode
C7_Witness ==
    /\ z64call.called
    /\ ~z64call.raised
    /\ zip64arg = "None"
    /\ pc = "after_header"
    /\ zs = [zip64 |-> "True", zip64headers |-> TRUE, version |-> ZIP64_VERSION]

\* C8 (as stated): for an empty member list stream() yields only the EOCD
\* record, with entry counts, size, offset and comment length 0.
C8_EmptyMinimal ==
    (Len(source_of_files) = 0 /\ Completed) =>
        /\ Len(out) = 1
        /\ out[1].kind = "eocd"
        /\ out[1].bytes = CD_END_MAGIC \o LEBytes(0, 18)

\* C8 (amended): that holds when ZIP64 headers are off; when they are on, the
\* ZIP64 EOCD record and the locator come first and the EOCD record holds the
\* sentinels 0xFFFF and 0xFFFFFFFF.
C8_EmptyMinimal32 ==
    (Len(source_of_files) = 0 /\ pc = "after_eocd") =>
        IF zs.zip64headers
        THEN /\ Len(out) = 3
             /\ out[1].kind = "eocd64" /\ out[2].kind = "loc64" /\ out[3].kind = "eocd"
             /\ out[3].bytes =
                   CD_END_MAGIC \o LEBytes(0, 4) \o x_ffff \o x_ffff \o x_ffffffff
                   \o x_ffffffff \o LEBytes(0, 2)
        ELSE /\ Len(out) = 1
             /\ out[1].kind = "eocd"
             /\ out[1].bytes = CD_END_MAGIC \o LEBytes(0, 18)

C8_Witness ==
    /\ Len(source_of_files) = 0
    /\ pc = "after_eocd"
    /\ ~zs.zip64headers
    /\ Len(out) = 1

\* the number of data chunks of out[i]'s member among out[1..i]
DataRank(i) ==
    Cardinality({j \in 1..i : out[j].kind = "data" /\ out[j].member = out[i].member})

\* C9: for a "store" member, after any number of process(chunk) calls and
\* tail(), the compressed-size counter equals the original-size counter, each
\* chunk is returned unchanged and the tail is empty (it is never yielded).
C9_StoreProcessor ==
    /\ pcs.method = "through" => pcs.c_size = pcs.o_size
    /\ \A i \in 1..Len(out) :
          (out[i].kind \in {"data", "tail", "dd"}
           /\ IsStore(source_of_files[out[i].member])) =>
              /\ out[i].kind # "tail"
              /\ out[i].kind = "data" =>
                    out[i].bytes = SourceChunks(source_of_files[out[i].member])[DataRank(i)]
              /\ out[i].kind = "dd" => DdField(i, "comp_size") = DdField(i, "uncomp_size")

\* a store member of three chunks, one of them empty, with its descriptor out
C9_Witness ==
    /\ pc = "after_dd"
    /\ pcs.method = "through"
    /\ pcs.o_size = 3
    /\ rd = 3
    /\ IsStore(source_of_files[idx])

\* the chunks with the DOS time and date fields of the headers blanked
Unstamped(o) ==
    [i \in 1..Len(o) |->
        IF o[i].kind = "lfh"
        THEN [o[i] EXCEPT !.bytes = SubSeq(o[i].bytes, 1, 10) \o <<0, 0, 0, 0>>
                                    \o SubSeq(o[i].bytes, 15, Len(o[i].bytes))]
        ELSE IF o[i].kind = "cdfh"
        THEN [o[i] EXCEPT !.bytes = SubSeq(o[i].bytes, 1, 12) \o <<0, 0, 0, 0>>
                                    \o SubSeq(o[i].bytes, 17, Len(o[i].bytes))]
        ELSE o[i]]

\* C10: once an iteration has run to its end, offset, entry list and
\* central-directory size are reset, and a following stream() on the same
\* object (under the same ZIP64 state) yields the chunks of the one before,
\* which began on the fresh object, timestamps aside.
C10_ReuseAfterFinish ==
    pc = "finished" =>
        /\ offset = 0
        /\ files = <<>>
        /\ cdir_size = 0
        /\ (prev.done /\ prev.zs0 = zs0) => Unstamped(out) = Unstamped(prev.out)

\* a second iteration over two members that differs from the first in its
\* timestamps only
C10_Witness ==
    /\ pc = "finished"
    /\ prev.done
    /\ prev.zs0 = zs0
    /\ Len(Pos("cdfh")) = 2
    /\ out # prev.out

\* ---------------------------------------------------------------- ZipStream, run to its end
\* The synchronous generators of zipstream.py taken as a whole: everything a
\* consumer gets from them when it iterates until they return or raise.

\* for chunk in self.data_generator(...): yield pcs.process(chunk)
RECURSIVE ProcessAll(_, _, _)
ProcessAll(p, chs, i) ==
    IF i > Len(chs) THEN [yielded |-> <<>>, pcs |-> p]
    ELSE LET r == process(p, chs[i])
             rest == ProcessAll(r.pcs, chs, i + 1)
         IN  [yielded |-> <<r.ret>> \o rest.yielded, pcs |-> rest.pcs]

\* ZipStream._stream_single_file: its chunks, and file_struct as it leaves it
_stream_single_file(self, file_struct, member) ==
    LET d == ProcessAll(Processor(file_struct),
                        data_generator(file_struct.src, file_struct.stype), 1)
        t == tail(d.pcs)
        dd == _make_data_descriptor(self, file_struct, t.pcs.crc, t.pcs.o_size,
                                    t.pcs.c_size)
    IN  [yielded |->
            <<Chunk("lfh", member, _make_local_file_header(self, file_struct))>>
            \o [i \in 1..Len(d.yielded) |-> Chunk("data", member, d.yielded[i])]
            \o (IF t.ret # <<>> THEN <<Chunk("tail", member, t.ret)>> ELSE <<>>)
            \o <<Chunk("dd", member, dd)>>,
         file_struct |-> DescribedStruct(file_struct, t.pcs.crc, t.pcs.o_size,
                                         t.pcs.c_size)]

RECURSIVE ChunkBytes(_)
ChunkBytes(cs) == IF cs = <<>> THEN 0 ELSE Len(cs[1].bytes) + ChunkBytes(Tail(cs))

\* ZipBase._make_end_structures from the k-th central-directory header on
RECURSIVE EndFrom(_, _, _, _, _)
EndFrom(self, fs, csize, o, k) ==
    IF k <= Len(fs)
    THEN IF CdirHeaderError(self, fs[k]) # ""
         THEN [yielded |-> <<>>, err |-> CdirHeaderError(self, fs[k])]
         ELSE LET chunk == _make_cdir_file_header(self, fs[k])
                  rest == EndFrom(self, fs, csize + Len(chunk), o, k + 1)
              IN  [yielded |-> <<Chunk("cdfh", k, chunk)>> \o rest.yielded,
                   err |-> rest.err]
    ELSE [yielded |->
             (IF self.zip64headers
              THEN <<Chunk("eocd64", 0, _make_cdend64(self, fs, csize, o)),
                     Chunk("loc64", 0, _make_eocd64_locator(o + csize))>>
              ELSE <<>>)
             \o <<Chunk("eocd", 0, _make_cdend(self, fs, csize, o))>>,
          err |-> ""]
_make_end_structures(self, fs, csize, o) == EndFrom(self, fs, csize, o, 1)

\* ZipStream.stream from the k-th source on, then the trailer
RECURSIVE StreamFrom(_, _, _, _, _, _, _)
StreamFrom(self, sources, fs, csize, o, dt, k) ==
    IF k > Len(sources) THEN _make_end_structures(self, fs, csize, o)
    ELSE LET r == _create_file_struct("ZipStream", TRUE, self, sources[k], dt)
         IN  IF r.err # "" THEN [yielded |-> <<>>, err |-> r.err]
             ELSE LET m == _stream_single_file(r.self,
                                               [r.file_struct EXCEPT !.offset = o], k)
                      rest == StreamFrom(r.self, sources, Append(fs, m.file_struct),
                                         csize, o + ChunkBytes(m.yielded), dt, k + 1)
                  IN  [yielded |-> m.yielded \o rest.yielded, err |-> rest.err]
stream(self, sources, fs, csize, o, dt) == StreamFrom(self, sources, fs, csize, o, dt, 1)

\* what ZipStream.stream() gives on an object in the state this iteration
\* began in, over the same members at the same wall-clock time
SyncRun == stream(zs0, source_of_files, begun.files, begun.cdir_size, begun.offset,
                  localtime)
Ended == pc \in {"failed", "after_eocd"}

\* C11 (as stated): AioZipStream.stream() yields the chunk sequence of
\* ZipStream.stream() and raises the same error at the same point.
C11_AioSameAsSync ==
    (klass = "AioZipStream" /\ Ended) =>
        LET sync == SyncRun
        IN  /\ out = sync.yielded
            /\ err = sync.err

\* C11 (amended): that holds where the aiofiles import succeeded; where it
\* failed, a member given as a file path ends the asynchronous iteration with
\* MissingSourceError before any chunk of it, and up to that member the chunks
\* are those of the synchronous iteration.
C11_AioSameAsSyncWithAiofiles ==
    (klass = "AioZipStream" /\ Ended) =>
        LET sync == SyncRun
        IN  IF aio_available
            THEN /\ out = sync.yielded
                 /\ err = sync.err
            ELSE IF \E k \in 1..Len(source_of_files) : "file" \in source_of_files[k].keys
            THEN /\ pc = "failed"
                 /\ err = "MissingSourceError"
                 /\ "file" \in source_of_files[idx].keys
                 /\ \A k \in 1..(idx - 1) : "file" \notin source_of_files[k].keys
                 /\ Len(out) <= Len(sync.yielded)
                 /\ out = SubSeq(sync.yielded, 1, Len(out))
                 /\ \A i \in 1..Len(out) : out[i].member < idx
            ELSE /\ out = sync.yielded
                 /\ err = sync.err

\* an asynchronous iteration over a file of two blocks and a stream member
\* has yielded its last chunk
C11_Witness ==
    /\ klass = "AioZipStream"
    /\ aio_available
    /\ pc = "after_eocd"
    /\ Len(source_of_files) = 2
    /\ source_of_files[1].file = PathA
    /\ "stream" \in source_of_files[2].keys
    /\ out = SyncRun.yielded
    /\ Len(out) >= 11

\* the name bytes behind the fixed part of a central-directory header
CdfhName(i) ==
    SubSeq(out[i].bytes, StructSize(CDLF_STRUCT) + 1,
           StructSize(CDLF_STRUCT) + LEValue(CdfhField(i, "fname_len")))
\* the name a member goes by once normalized, as the bytes written for it
WrittenName(m) ==
    LET name == IF "name" \in m.keys THEN m.name ELSE basename(m.file)
    IN  IF IsAscii(name) THEN name ELSE Utf8(name)
RECURSIVE SumLen(_, _)
SumLen(H, k) == IF k = 0 THEN 0 ELSE Len(out[H[k]].bytes) + SumLen(H, k - 1)

\* C12: in a completed build with ZIP64 headers off, the trailer is one
\* central-directory header per member, in the order of the member list,
\* followed by the EOCD record, whose two entry counts equal the number of
\* members and whose central-directory size is the summed length of the
\* headers yielded.
C12_CdirPerMember ==
    (pc = "after_eocd" /\ ~zs.zip64headers) =>
        LET H == Pos("cdfh")
            E == Pos("eocd")
            n == Len(source_of_files)
        IN  /\ Len(H) = n
            /\ Len(E) = 1
            /\ E[1] = Len(out)
            /\ \A k \in 1..n :
                  /\ H[k] = Len(out) - n + k - 1
                  /\ out[H[k]].member = k
                  /\ CdfhName(H[k]) = WrittenName(source_of_files[k])
                  /\ CdfhField(H[k], "offset") = Num(BytesBefore(Pos("lfh")[k]))
            /\ EocdField(E[1], "disk_entries") = Fit(Num(n), 2)
            /\ EocdField(E[1], "total_entries") = Fit(Num(n), 2)
            /\ EocdField(E[1], "cd_size") = Num(SumLen(H, n))

\* two members of different names and header lengths
C12_Witness ==
    /\ pc = "after_eocd"
    /\ ~zs.zip64headers
    /\ Len(Pos("cdfh")) = 2
    /\ CdfhName(Pos("cdfh")[1]) = <<195, 169>>
    /\ CdfhName(Pos("cdfh")[2]) = <<97>>

Upgraded(z) == z.zip64headers /\ z.version = ZIP64_VERSION

\* C13: once the ZIP64-headers flag is set and the version is 45, no step of
\* the object (a member's normalization, an upgrade call, the trailer, the
\* cleanup, the start of another iteration) clears the flag or lowers the
\* version.
C13_Zip64Monotonic ==
    [][Upgraded(zs) => Upgraded(zs')]_vars

\* an upgraded object that has finished one iteration (its cleanup has run)
\* and was then asked for the upgrade again
C13_Witness ==
    /\ Upgraded(zs)
    /\ pc = "finished"
    /\ builds >= 1
    /\ z64call.called

Sourceless(m) == "file" \notin m.keys /\ "stream" \notin m.keys

\* C14: a description with neither a file path nor a stream ends stream()
\* with MissingSourceError when its turn comes: the iteration never gets past
\* it, no chunk of it and no trailer record is yielded, and the entry list and
\* the running offset are as the members before it left them.
C14_MissingSource ==
    \A k \in 1..Len(source_of_files) :
        Sourceless(source_of_files[k]) =>
            /\ idx <= k
            /\ \A i \in 1..Len(out) : out[i].member # k /\ out[i].kind \notin TrailerKinds
            /\ idx = k =>
                  /\ pc = "failed"
                  /\ err = "MissingSourceError"
                  /\ Len(files) = Len(begun.files) + k - 1
                  /\ offset = begun.offset + TotalBytes

\* the description without a source came second: the first member's chunks
\* are out and accounted for
C14_Witness ==
    /\ pc = "failed"
    /\ err = "MissingSourceError"
    /\ idx = 2
    /\ Sourceless(source_of_files[2])
    /\ Len(out) >= 3
    /\ offset = TotalBytes
    /\ Len(files) = 1

\* the compression selector of a description (None when the key is absent)
Selector(m) == IF "compression" \in m.keys THEN m.compression ELSE None
Selectors == {None, "store", "deflate", "bzip2"}
\* an earlier check of the normalizer has ended the iteration at this member
EarlierError(m) ==
    /\ "file" \in m.keys
    /\ err \in {"MissingSourceError", "Zip64RequiredError"}
\* what C15 says of the member list when the selectors in Accepted are the
\* ones taken
SelectorsAre(Accepted) ==
    /\ \A sel \in Selectors :
          (_get_compression_methods(sel) = "UnsupportedCompressionError")
              <=> sel \notin Accepted
    /\ \A k \in 1..Len(source_of_files) :
          LET m == source_of_files[k]
          IN  IF Selector(m) \in Accepted
              THEN /\ ~(pc = "failed" /\ idx = k /\ err = "UnsupportedCompressionError")
                   /\ \A i \in 1..Len(out) :
                         (out[i].kind = "lfh" /\ out[i].member = k) =>
                            LfhField(i, "compression") =
                               Fit(Num(IF Selector(m) = "deflate"
                                       THEN COMPRESSION_DEFLATE
                                       ELSE COMPRESSION_STORE), 2)
              ELSE /\ idx <= k
                   /\ \A i \in 1..Len(out) : out[i].member # k
                   /\ idx = k =>
                         /\ pc = "failed"
                         /\ err = "UnsupportedCompressionError" \/ EarlierError(m)

\* C15 (as stated): normalization takes exactly the selectors unset, "store"
\* and "deflate" (method ids 0, 0 and 8) and fails any other with
\* UnsupportedCompressionError before a chunk of the member is yielded; the
\* Processor rejects the same selectors.
C15_Selectors == SelectorsAre({None, "store", "deflate"})

\* C15 (amended): the selectors taken are unset (method id 0) and "deflate"
\* (method id 8); every other one, the name "store" among them, fails with
\* UnsupportedCompressionError, in the normalizer and in the Processor alike.
C15_SelectorsNoStore == SelectorsAre({None, "deflate"})

\* a member that asks for "store" by name has ended the iteration, after the
\* chunks of the member before it
C15_Witness ==
    /\ pc = "failed"
    /\ err = "UnsupportedCompressionError"
    /\ idx = 2
    /\ Selector(source_of_files[2]) = "store"
    /\ Len(out) >= 3

\* the display name of a member whose header is out, as code points
DisplayName(m) == IF "name" \in m.keys THEN m.name ELSE basename(m.file)
NonAscii(name) == \E j \in 1..Len(name) : name[j] > 127
\* bit 3 of a byte: 0x08 in the low byte of the flags, 0x800 in the high one
Bit3(b) == (b \div 8) % 2 = 1
LfhName(i) ==
    SubSeq(out[i].bytes, StructSize(LF_STRUCT) + 1,
           StructSize(LF_STRUCT) + LEValue(LfhField(i, "fname_len")))

\* C16: the flags of a member's local header always have bit 0x08 set and
\* have bit 0x800 set exactly when the display name is not ASCII (the name is
\* then written in UTF-8); the member's central-directory header carries the
\* same flags.
C16_Flags ==
    /\ \A i \in 1..Len(out) :
          out[i].kind = "lfh" =>
             LET f == LfhField(i, "flags")
                 name == DisplayName(source_of_files[out[i].member])
             IN  /\ Bit3(f[1])
                 /\ Bit3(f[2]) <=> NonAscii(name)
                 /\ f[1] = 8 /\ f[2] \in {0, 8}
                 /\ NonAscii(name) => LfhName(i) = Utf8(name) /\ LfhName(i) # name
                 /\ ~NonAscii(name) => LfhName(i) = name
    /\ \A j \in 1..Len(out) :
          out[j].kind = "cdfh" =>
             LET l == Pos("lfh")[out[j].member]
             IN  /\ CdfhField(j, "flags") = LfhField(l, "flags")
                 /\ CdfhName(j) = LfhName(l)

\* both central-directory headers are out, one for an ASCII name and one for
\* a name that needed UTF-8
C16_Witness ==
    /\ Len(Pos("cdfh")) = 2
    /\ CdfhField(Pos("cdfh")[1], "flags") = <<8, 0>>
    /\ CdfhField(Pos("cdfh")[2], "flags") = <<8, 8>>

\* a raw-deflate decoder for streams of stored blocks: the data, or a failure
\* when the stream is malformed, truncated or runs on past its final block
RECURSIVE inflate(_)
inflate(bs) ==
    IF Len(bs) < 5 THEN [ok |-> FALSE, data |-> <<>>]
    ELSE LET len == bs[2] + 256 * bs[3]
             nlen == bs[4] + 256 * bs[5]
         IN  IF bs[1] \notin {0, 1} \/ len + nlen # 65535 \/ Len(bs) < 5 + len
             THEN [ok |-> FALSE, data |-> <<>>]
             ELSE IF bs[1] = 1
             THEN [ok |-> Len(bs) = 5 + len, data |-> SubSeq(bs, 6, 5 + len)]
             ELSE LET rest == inflate(SubSeq(bs, 6 + len, Len(bs)))
                  IN  [ok |-> rest.ok, data |-> SubSeq(bs, 6, 5 + len) \o rest.data]

\* the bytes yielded for member k between its local header and its descriptor
IsDataOf(c, k) == c.member = k /\ c.kind \in {"data", "tail"}
MemberData(k) ==
    LET sel == SelectSeq(out, LAMBDA c : IsDataOf(c, k))
    IN  Concat([i \in 1..Len(sel) |-> sel[i].bytes])

\* C17: once the descriptor of a "deflate" member is out, the data and tail
\* chunks yielded for that member, concatenated, are a raw-deflate stream that
\* decodes to the concatenation of the member's source chunks.
C17_DeflateRoundTrip ==
    \A i \in 1..Len(out) :
        (out[i].kind = "dd" /\ ~IsStore(source_of_files[out[i].member])) =>
            LET k == out[i].member
                r == inflate(MemberData(k))
            IN  /\ r.ok
                /\ r.data = SourceBytes(source_of_files[k])
                /\ LEValue(DdField(i, "comp_size")) = Len(MemberData(k))

\* a deflate member of three source chunks, yielded as an empty chunk, a
\* block and the final block
C17_Witness ==
    /\ pc = "after_dd"
    /\ ~IsStore(source_of_files[idx])
    /\ Len(SourceBytes(source_of_files[idx])) = 3
    /\ Len(MemberData(idx)) = 13
    /\ inflate(MemberData(idx)).data = <<7, 8, 9>>

\* what is yielded for the source chunks of member m, in order: the chunks
\* themselves when stored, what the compressor hands back for each otherwise
RECURSIVE CompressAll(_, _, _)
CompressAll(compr, chs, i) ==
    IF i > Len(chs) THEN <<>>
    ELSE LET z == compress(compr, chs[i])
         IN  <<z.ret>> \o CompressAll(z.compr, chs, i + 1)
Processed(m) ==
    IF IsStore(m) THEN SourceChunks(m) ELSE CompressAll(<<>>, SourceChunks(m), 1)

\* C18: the chunks of one iteration come member by member in list order, each
\* member as local header, one processed chunk per source chunk in source
\* order, the tail if it is not empty, data descriptor; a local header follows
\* only the descriptor of the member before it, and a trailer record follows
\* only the last member's descriptor or another trailer record.
C18_ChunkOrder ==
    \A i \in 1..Len(out) :
        LET c == out[i]
            first == i = 1
            p == IF first THEN c ELSE out[i - 1]
            n == Len(source_of_files)
        IN  CASE c.kind = "lfh" ->
                    IF first THEN c.member = 1
                    ELSE p.kind = "dd" /\ c.member = p.member + 1
              [] c.kind = "data" ->
                    /\ ~first /\ p.kind \in {"lfh", "data"} /\ p.member = c.member
                    /\ DataRank(i) <= Len(SourceChunks(source_of_files[c.member]))
                    /\ c.bytes = Processed(source_of_files[c.member])[DataRank(i)]
              [] c.kind = "tail" ->
                    /\ ~first /\ p.kind \in {"lfh", "data"} /\ p.member = c.member
                    /\ c.bytes # <<>>
                    /\ DataRank(i) = Len(SourceChunks(source_of_files[c.member]))
              [] c.kind = "dd" ->
                    /\ ~first /\ p.kind \in {"lfh", "data", "tail"} /\ p.member = c.member
                    /\ DataRank(i) = Len(SourceChunks(source_of_files[c.member]))
                    /\ p.kind # "tail" => IsStore(source_of_files[c.member])
              [] c.kind = "cdfh" ->
                    /\ ~first
                    /\ \/ p.kind = "dd" /\ p.member = n /\ c.member = 1
                       \/ p.kind = "cdfh" /\ c.member = p.member + 1
              [] c.kind = "eocd64" ->
                    IF first THEN n = 0
                    ELSE (p.kind = "dd" \/ p.kind = "cdfh") /\ p.member = n
              [] c.kind = "loc64" -> ~first /\ p.kind = "eocd64"
              [] c.kind = "eocd" ->
                    IF first THEN n = 0
                    ELSE \/ p.kind = "loc64"
                         \/ p.kind = "cdfh" /\ p.member = n
              [] OTHER -> FALSE

\* a deflate member with its tail, then a store member, then the trailer
C18_Witness ==
    /\ pc = "after_eocd"
    /\ Len(source_of_files) = 2
    /\ Len(Pos("tail")) = 1
    /\ Pos("tail")[1] < Pos("lfh")[2]
    /\ Pos("dd")[2] + 1 = Pos("cdfh")[1]
    /\ Len(out) >= 12

\* stream() is suspended at a yield
Suspended ==
    pc \in {"after_header", "in_data", "after_tail", "after_dd", "in_cdir", "after_eocd64",
            "after_loc64", "after_eocd"}
\* the bytes of the members' chunks yielded so far: everything but the trailer
MemberBytes ==
    LET sel == SelectSeq(out, LAMBDA c : c.kind \notin TrailerKinds)
    IN  ChunkBytes(sel)

\* C19 (as stated): wherever stream() is suspended, the running offset is the
\* total length of the chunks yielded so far in this iteration, trailer
\* records included.
C19_OffsetIsTotal ==
    Suspended => offset = TotalBytes

\* C19 (amended): wherever stream() is suspended (and where it has ended with
\* an error), the running offset is the offset the iteration began with plus
\* the length of the local headers, data, tails and descriptors yielded so
\* far; trailer records do not advance it.  On a fresh object the iteration
\* begins with offset 0.
C19_OffsetTracksMembers ==
    /\ (Suspended \/ pc = "failed") => offset = begun.offset + MemberBytes
    /\ builds <= 1 => begun.offset = 0

\* the whole trailer is out and the offset still points at the first
\* central-directory header
C19_Witness ==
    /\ pc = "after_eocd"
    /\ builds = 1
    /\ Len(Pos("cdfh")) = 2
    /\ offset = BytesBefore(Pos("cdfh")[1])
    /\ offset < TotalBytes

\* ZIP64 headers are on when the header of member k is made: they were on
\* when the iteration began, or the mode was undecided and a file among the
\* members up to k is larger than 2^31-1
ModeAt(k) ==
    \/ zs0.zip64headers
    \/ /\ zs0.zip64 = "None"
       /\ \E j \in 1..k : IsBigFile(source_of_files[j])
LfhShape32(i) ==
    /\ LfhField(i, "version") = Fit(Num(ZIP32_VERSION), 2)
    /\ LfhField(i, "crc") = Num(0)
    /\ LfhField(i, "comp_size") = Num(0)
    /\ LfhField(i, "uncomp_size") = Num(0)
    /\ LfhField(i, "extra_len") = <<0, 0>>
    /\ Len(out[i].bytes) = StructSize(LF_STRUCT) + LEValue(LfhField(i, "fname_len"))
LfhShape64(i) ==
    /\ LfhField(i, "version") = Fit(Num(ZIP64_VERSION), 2)
    /\ LfhField(i, "comp_size") = x_ffffffff
    /\ LfhField(i, "uncomp_size") = x_ffffffff
    /\ LEValue(LfhField(i, "extra_len")) = 4 + StructSize(EXTRA_64_STRUCT)
    /\ SubSeq(ExtraOf(i, LF_STRUCT, LF_TUPLE), 1, 4) = <<1, 0, 16, 0>>
    /\ Len(out[i].bytes) = StructSize(LF_STRUCT) + LEValue(LfhField(i, "fname_len"))
                           + 4 + StructSize(EXTRA_64_STRUCT)

Eocd64Field(i, name) == Field(out[i].bytes, CD_END_STRUCT64, CD_END_TUPLE64, name)
Loc64Field(i, name) == Field(out[i].bytes, CD_LOC64_STRUCT, CD_LOC64_TUPLE, name)

\* C21: with ZIP64 headers on at trailer time, the trailer is yielded as all
\* central-directory headers, the ZIP64 EOCD record, the ZIP64 EOCD locator
\* and the EOCD record, in this order; the ZIP64 EOCD holds the true entry
\* count, central-directory size and offset, the locator holds the position
\* where the ZIP64 EOCD begins, and the EOCD holds the sentinels.
C21_Zip64Trailer ==
    zs.zip64headers =>
        /\ ~(pc = "failed" /\ err = "AttributeError")
        /\ pc = "after_eocd" =>
              LET n == Len(source_of_files)
                  H == Pos("cdfh")
                  e64 == Len(out) - 2
                  cdstart == BytesBefore(Len(out) - 2 - n)
              IN  /\ Len(H) = n
                  /\ \A k \in 1..n : H[k] = Len(out) - 3 - n + k
                  /\ out[e64].kind = "eocd64"
                  /\ out[e64 + 1].kind = "loc64"
                  /\ out[e64 + 2].kind = "eocd"
                  /\ Eocd64Field(e64, "disk_entries") = Fit(Num(n), 8)
                  /\ Eocd64Field(e64, "total_entries") = Fit(Num(n), 8)
                  /\ Eocd64Field(e64, "cd_size") = Fit(Num(SumLen(H, n)), 8)
                  /\ Eocd64Field(e64, "cd_offset") = Fit(Num(offset), 8)
                  /\ Loc64Field(e64 + 1, "offset") = Fit(Num(BytesBefore(e64)), 8)
                  /\ BytesBefore(e64) = offset + SumLen(H, n)
                  /\ EocdField(e64 + 2, "disk_entries") = x_ffff
                  /\ EocdField(e64 + 2, "total_entries") = x_ffff
                  /\ EocdField(e64 + 2, "cd_size") = x_ffffffff
                  /\ EocdField(e64 + 2, "cd_offset") = x_ffffffff

\* ---------------------------------------------------------------- cancellation
\* The consumer gives the iteration up where it is suspended: the generator
\* is closed (close(), aclose(), or its last reference dropped).  GeneratorExit
\* unwinds stream(), _stream_single_file and data_generator, which leaves the
\* "with open(...)" block; nothing after the yield runs, _cleanup() included.
Abandon ==
    /\ Suspended
    /\ pc' = "closed"
    /\ fh' = with_exit(fh)
    /\ z64call' = NoCall
    /\ UNCHANGED <<config, source_of_files, zs, files, cdir_size, offset, idx, rd, pcs,
                   tpos, eocd64position, out, err, builds, zs0, begun, prev,
                   held, other>>

\* the source raises where the next chunk is asked of it (open() or read() of
\* a file, the iterator of a stream): the exception passes through the with
\* block and out of stream()
ReadRaises ==
    /\ InData
    /\ err' = "OSError"
    /\ pc' = "failed"
    /\ fh' = with_exit(fh)
    /\ z64call' = NoCall
    /\ UNCHANGED <<config, source_of_files, zs, files, cdir_size, offset, idx, rd, pcs,
                   tpos, eocd64position, out, builds, zs0, begun, prev,
                   held, other>>

NextCancel ==
    \/ Next
    \/ Abandon
    \/ ReadRaises

SpecCancel == Init /\ [][NextCancel]_vars

\* the iteration is over, by cancellation or by an exception
Over == pc \in {"closed", "failed"}

Locals ==
    [pc |-> pc, idx |-> idx, rd |-> rd, pcs |-> pcs, tpos |-> tpos,
     eocd64position |-> eocd64position, out |-> out, err |-> err, fh |-> fh, zs0 |-> zs0,
     begun |-> begun, held |-> held]

\* zs.stream() is called again while the first generator is alive: the
\* consumer keeps the first and holds a second one of the same object, of
\* which nothing has run yet.  self.__files, __cdir_size, __offset and the
\* ZIP64 mode are attributes of the object and so the same for both.
SecondStream ==
    /\ other.pc = "none"
    /\ Suspended \/ pc = "start"
    /\ builds < MaxBuilds
    /\ other' = Locals
    /\ builds' = builds + 1
    /\ zs0' = zs
    /\ begun' = [files |-> files, cdir_size |-> cdir_size, offset |-> offset]
    /\ pc' = "start"
    /\ idx' = 0
    /\ rd' = 0
    /\ pcs' = Processor([cmethod |-> None])
    /\ tpos' = 0
    /\ eocd64position' = 0
    /\ out' = <<>>
    /\ err' = ""
    /\ fh' = NoFile
    /\ held' = HoldsNothing
    /\ z64call' = NoCall
    /\ UNCHANGED <<config, source_of_files, zs, files, cdir_size, offset, prev>>

\* the consumer turns to its other generator: the next next() is that one's
Switch ==
    /\ other.pc \notin {"none", "finished", "failed", "closed"}
    /\ other' = Locals
    /\ pc' = other.pc
    /\ idx' = other.idx
    /\ rd' = other.rd
    /\ pcs' = other.pcs
    /\ tpos' = other.tpos
    /\ eocd64position' = other.eocd64position
    /\ out' = other.out
    /\ err' = other.err
    /\ fh' = other.fh
    /\ zs0' = other.zs0
    /\ begun' = other.begun
    /\ held' = other.held
    /\ z64call' = NoCall
    /\ UNCHANGED <<config, source_of_files, zs, files, cdir_size, offset, builds, prev>>

NextPair ==
    \/ Next
    \/ SecondStream
    \/ Switch

\* an object of either class over a list of at most MaxPairMembers members
InitPair == Init /\ Len(source_of_files) <= MaxPairMembers

SpecPair == InitPair /\ [][NextPair]_vars

\* the member part of an iteration: a local header was yielded, the trailer
\* was not begun
AmidMembers == pc \in {"after_header", "in_data", "after_tail", "after_dd"}

\* C23: of the first two iterations of an object, consumed in any
\* interleaving, each records for its member the offset of that member's own
\* local header in its own output, yields no more central-directory headers
\* than it has members, each with the offset of its own header of that
\* position, and ends with an EOCD that counts its own members.
C23_BuildsConfined ==
    (other.pc # "none" /\ builds = 2) =>
        LET H == Pos("cdfh")
            L == Pos("lfh")
            E == Pos("eocd")
        IN  /\ AmidMembers => cur.offset = BytesBefore(L[Len(L)])
            /\ Len(H) <= Len(L)
            /\ \A k \in 1..Len(H) : CdfhField(H[k], "offset") = Num(BytesBefore(L[k]))
            /\ (pc = "after_eocd" /\ ~zs.zip64headers) =>
                    EocdField(E[1], "total_entries") = Fit(Num(Len(source_of_files)), 2)

\* ---------------------------------------------------------------- sizes
\* the total byte length of the data and tail chunks yielded for member k
RECURSIVE YieldedFrom(_, _)
YieldedFrom(k, i) ==
    IF i > Len(out) THEN 0
    ELSE (IF IsDataOf(out[i], k) THEN Len(out[i].bytes) ELSE 0) + YieldedFrom(k, i + 1)
YieldedLen(k) == YieldedFrom(k, 1)
\* the total byte length of the chunks member k's source gives
SourceLen(k) == Len(SourceBytes(source_of_files[k]))

\* C24: every data descriptor yielded carries, in the width of its mode, the
\* byte length of its member's source as the uncompressed size and the byte
\* length of the data and tail chunks yielded for that member as the
\* compressed size; every central-directory header yielded carries the same
\* two numbers for its member.
C24_SizesWritten ==
    \A i \in 1..Len(out) :
        /\ out[i].kind = "dd" =>
              LET w == Len(DdField(i, "uncomp_size"))
              IN  /\ DdField(i, "uncomp_size") = Fit(Num(SourceLen(out[i].member)), w)
                  /\ DdField(i, "comp_size") = Fit(Num(YieldedLen(out[i].member)), w)
        /\ out[i].kind = "cdfh" =>
              /\ CdfhField(i, "uncomp_size") = Num(SourceLen(out[i].member))
              /\ CdfhField(i, "comp_size") = Num(YieldedLen(out[i].member))

\* a stored member and a deflated one, whose yielded bytes outnumber its
\* source's, both listed in the central directory
C24_Witness ==
    /\ pc = "after_eocd"
    /\ Len(Pos("cdfh")) = 2
    /\ IsStore(source_of_files[1])
    /\ ~IsStore(source_of_files[2])
    /\ SourceLen(1) > 0
    /\ YieldedLen(2) > SourceLen(2)
    /\ SourceLen(2) > 0
    /\ CdfhField(Pos("cdfh")[2], "comp_size") = Num(YieldedLen(2))

\* ---------------------------------------------------------------- names
\* the error kinds _create_file_struct is declared to raise
DeclaredErrors == {"MissingSourceError", "UnsupportedCompressionError", "Zip64RequiredError"}
\* the iteration ended in _create_file_struct: no header of member idx is out
FailedNormalizing == pc = "failed" /\ Len(Pos("lfh")) < idx

\* C25: the normalization of a member that has a source and no name either
\* gives an entry named by the base name of the source or ends with a
\* declared error; and whenever normalization ends an iteration, it is with
\* MissingSourceError, UnsupportedCompressionError or Zip64RequiredError.
C25_NameDefaults ==
    /\ [](FailedNormalizing => err \in DeclaredErrors)
    /\ [][(/\ AtLoopHead
           /\ idx < Len(source_of_files)
           /\ idx' = idx + 1
           /\ has_source(source_of_files[idx + 1])
           /\ "name" \notin source_of_files[idx + 1].keys)
          => \/ /\ pc' = "after_header"
                /\ cur'.fname = WrittenName(source_of_files[idx + 1])
                /\ "name" \in source_of_files'[idx + 1].keys
             \/ /\ pc' = "failed"
                /\ err' \in DeclaredErrors]_vars

\* ---------------------------------------------------------------- a new start
\* C26: when an iteration is started, whatever became of the one before it,
\* the running offset and the central-directory size are 0 and the entry list
\* is empty; a completed trailer with ZIP64 headers off then has one
\* central-directory header per member of the list, at the offset of that
\* member's own local header, and an EOCD that counts them.
C26_StartsClean ==
    /\ pc = "start" =>
          /\ offset = 0
          /\ files = <<>>
          /\ cdir_size = 0
    /\ (pc = "after_eocd" /\ ~zs.zip64headers) =>
          LET H == Pos("cdfh")
              n == Len(source_of_files)
          IN  /\ Len(H) = n
              /\ \A k \in 1..n :
                    CdfhField(H[k], "offset") = Num(BytesBefore(Pos("lfh")[k]))
              /\ EocdField(Len(out), "total_entries") = Fit(Num(n), 2)
              /\ EocdField(Len(out), "cd_size") = Num(SumLen(H, n))

\* ---------------------------------------------------------------- empty chunks
\* C27: no chunk yielded by stream() is empty, whether it is a record, a
\* processed chunk of data or a tail.
C27_NoEmptyChunk ==
    \A i \in 1..Len(out) : out[i].bytes # <<>>

====
